---------------------------- MODULE Spec2Model ----------------------------
(***************************************************************************)
(* Model of dhcp/ipv6/extensions/ntp.py: the NTP server option (RFC 5908), *)
(* its suboptions, the suboption registries and the container's decode,    *)
(* validate and encode paths.                                              *)
(*                                                                         *)
(* Bytes are naturals 0..255, a buffer is a sequence of bytes, a Python    *)
(* str is a sequence of one-character strings.  Offsets are 0-based as in  *)
(* the source; sequences are 1-based, so byte `pos` is buffer[pos + 1].    *)
(***************************************************************************)
EXTENDS Integers, Sequences, FiniteSets, TLC

\* ------------------------------------------------------------------ bounds
\* Most nested elements a generated container payload is built from.
MaxNested == 2
\* load_from is started only on a container that holds fewer elements than this.
MaxHeld == 2

\* --------------------------------------------------------------- constants
OPTION_NTP_SERVER == 56
NTP_SUBOPTION_SRV_ADDR == 1
NTP_SUBOPTION_MC_ADDR == 2
NTP_SUBOPTION_SRV_FQDN == 3

\* Python's None for an optional int argument.
None == -1

\* ----------------------------------------------------------------- strings
Lowercase == <<"a","b","c","d","e","f","g","h","i","j","k","l","m",
               "n","o","p","q","r","s","t","u","v","w","x","y","z">>
Uppercase == <<"A","B","C","D","E","F","G","H","I","J","K","L","M",
               "N","O","P","Q","R","S","T","U","V","W","X","Y","Z">>
Digits == <<"0","1","2","3","4","5","6","7","8","9">>

Range(s) == {s[i] : i \in DOMAIN s}
IndexOf(s, c) == CHOOSE i \in DOMAIN s : s[i] = c
IsUpper(c) == c \in Range(Uppercase)
IsLower(c) == c \in Range(Lowercase)
IsDigit(c) == c \in Range(Digits)

\* str.lower(), one character
LowerChar(c) == IF IsUpper(c) THEN Lowercase[IndexOf(Uppercase, c)] ELSE c
\* str.lower()
Lower(s) == [i \in DOMAIN s |-> LowerChar(s[i])]
\* str.replace('-', '_')
ReplaceDash(s) == [i \in DOMAIN s |-> IF s[i] = "-" THEN "_" ELSE s[i]]
\* str.startswith / str.endswith
StartsWith(s, p) == Len(s) >= Len(p) /\ SubSeq(s, 1, Len(p)) = p
EndsWith(s, p) == Len(s) >= Len(p) /\ SubSeq(s, Len(s) - Len(p) + 1, Len(s)) = p

\* dhcp.utils.camelcase_to_underscore: an underscore goes in front of every
\* capital that starts a word (a capital followed by a lowercase letter, or a
\* capital after a lowercase letter or digit), then the whole is lowercased.
RECURSIVE CamelFrom(_, _)
CamelFrom(s, i) ==
    IF i > Len(s) THEN <<>>
    ELSE LET brk == /\ i > 1
                    /\ IsUpper(s[i])
                    /\ \/ (i < Len(s) /\ IsLower(s[i + 1]))
                       \/ IsLower(s[i - 1])
                       \/ IsDigit(s[i - 1])
         IN (IF brk THEN <<"_">> ELSE <<>>) \o <<LowerChar(s[i])>> \o CamelFrom(s, i + 1)
camelcase_to_underscore(s) == CamelFrom(s, 1)

\* ----------------------------------------------------------------- classes
\* A class is [id, name, suboption_type, is_suboption]: its identity, its
\* __name__, its suboption_type attribute and issubclass(., NTPSubOption).
NameNTP == <<"N","T","P">>
NameSubOption == <<"S","u","b","O","p","t","i","o","n">>
NameServer == <<"S","e","r","v","e","r">>

ClsNTPSubOption ==
    [id |-> "NTPSubOption", name |-> NameNTP \o NameSubOption,
     suboption_type |-> 0, is_suboption |-> TRUE]
ClsUnknown ==
    [id |-> "UnknownNTPSubOption",
     name |-> <<"U","n","k","n","o","w","n">> \o NameNTP \o NameSubOption,
     suboption_type |-> 0, is_suboption |-> TRUE]
ClsServerAddress ==
    [id |-> "NTPServerAddressSubOption",
     name |-> NameNTP \o NameServer \o <<"A","d","d","r","e","s","s">> \o NameSubOption,
     suboption_type |-> NTP_SUBOPTION_SRV_ADDR, is_suboption |-> TRUE]
ClsMulticastAddress ==
    [id |-> "NTPMulticastAddressSubOption",
     name |-> NameNTP \o <<"M","u","l","t","i","c","a","s","t","A","d","d","r","e","s","s">>
              \o NameSubOption,
     suboption_type |-> NTP_SUBOPTION_MC_ADDR, is_suboption |-> TRUE]
ClsServerFQDN ==
    [id |-> "NTPServerFQDNSubOption",
     name |-> NameNTP \o NameServer \o <<"F","Q","D","N">> \o NameSubOption,
     suboption_type |-> NTP_SUBOPTION_SRV_FQDN, is_suboption |-> TRUE]
\* The container is an Option, not an NTPSubOption.
ClsServerOption ==
    [id |-> "NTPServerOption",
     name |-> NameNTP \o NameServer \o <<"O","p","t","i","o","n">>,
     suboption_type |-> 0, is_suboption |-> FALSE]
\* Subclasses of NTPSubOption a caller of register() may define.
ClsPluginServer ==
    [id |-> "plugin.NTPServerSubOption", name |-> NameNTP \o NameServer \o NameSubOption,
     suboption_type |-> NTP_SUBOPTION_SRV_ADDR, is_suboption |-> TRUE]
ClsPluginFqdn ==
    [id |-> "plugin.ServerFqdn", name |-> NameServer \o <<"F","q","d","n">>,
     suboption_type |-> 4, is_suboption |-> TRUE]

ClsPluginMulticast ==
    [id |-> "plugin.MulticastSubOption",
     name |-> <<"M","u","l","t","i","c","a","s","t">> \o NameSubOption,
     suboption_type |-> NTP_SUBOPTION_MC_ADDR, is_suboption |-> TRUE]

ModuleClasses == {ClsNTPSubOption, ClsUnknown, ClsServerAddress, ClsMulticastAddress,
                  ClsServerFQDN, ClsServerOption}
RegisterArgs == ModuleClasses \cup {ClsPluginServer, ClsPluginFqdn, ClsPluginMulticast}

\* -------------------------------------------------------------- registries
\* The key a class is stored under in name_registry.
RegistryName(name) ==
    LET n1 == IF StartsWith(name, NameNTP) THEN SubSeq(name, 4, Len(name)) ELSE name
        n2 == IF EndsWith(n1, NameSubOption) THEN SubSeq(n1, 1, Len(n1) - 9) ELSE n1
    IN camelcase_to_underscore(n2)

\* dict[key] = value
DictSet(d, k, v) == [x \in DOMAIN d \cup {k} |-> IF x = k THEN v ELSE d[x]]

\* register(subclass): the registries after the call, [err, registry, name_registry].
register(reg, nreg, subclass) ==
    IF ~subclass.is_suboption
    THEN [err |-> "TypeError", registry |-> reg, name_registry |-> nreg]
    ELSE [err |-> "OK",
          registry |-> DictSet(reg, subclass.suboption_type, subclass.id),
          name_registry |-> DictSet(nreg, RegistryName(subclass.name), subclass.id)]

EmptyDict == [x \in {} |-> "none"]

\* The three register calls at the end of the module.
ModuleInit ==
    LET r1 == register(EmptyDict, EmptyDict, ClsServerAddress)
        r2 == register(r1.registry, r1.name_registry, ClsMulticastAddress)
    IN register(r2.registry, r2.name_registry, ClsServerFQDN)

\* ------------------------------------------------------------------- bytes
\* Python's buffer[a:b] for 0 <= a <= b: the slice stops at the buffer's end.
Slice(buffer, a, b) ==
    SubSeq(buffer, a + 1, IF b < Len(buffer) THEN b ELSE Len(buffer))
\* unpack_from('!H', buffer, offset)[0]; the caller checks that 2 bytes are there.
unpack_H(buffer, pos) == buffer[pos + 1] * 256 + buffer[pos + 2]
\* pack('!H', v) for 0 <= v <= 65535
pack_H(v) == <<v \div 256, v % 256>>
\* pack('!HH', a, b)
pack_HH(a, b) == pack_H(a) \o pack_H(b)
\* unpack_from needs its whole format inside the buffer, else struct.error.
CanUnpack(buffer, offset, n) == offset + n <= Len(buffer)

\* The code point of a character of a domain name, and back.
Ord(c) ==
    IF IsLower(c) THEN 96 + IndexOf(Lowercase, c)
    ELSE IF IsUpper(c) THEN 64 + IndexOf(Uppercase, c)
    ELSE IF IsDigit(c) THEN 47 + IndexOf(Digits, c)
    ELSE IF c = "." THEN 46
    ELSE IF c = "-" THEN 45
    ELSE IF c = ":" THEN 58
    ELSE 95
IsNameByte(b) ==
    \/ b \in 97..122
    \/ b \in 65..90
    \/ b \in 48..57
    \/ b \in {45, 95}
Chr(b) ==
    IF b \in 97..122 THEN Lowercase[b - 96]
    ELSE IF b \in 65..90 THEN Uppercase[b - 64]
    ELSE IF b \in 48..57 THEN Digits[b - 47]
    ELSE IF b = 45 THEN "-"
    ELSE "_"

\* ------------------------------------------------------------ domain names
\* dhcp.ipv6.parse_domain_name(buffer, offset, length): length-prefixed labels
\* up to the zero-length root label, inside `length` bytes.  The result is
\* [err, used, name], the name a dotted string.
RECURSIVE ParseLabels(_, _, _, _, _)
ParseLabels(buffer, offset, length, my, acc) ==
    LET bad == [err |-> "InvalidDomainName", used |-> 0, name |-> <<>>] IN
    IF my >= length \/ offset + my >= Len(buffer) THEN bad
    ELSE LET l == buffer[offset + my + 1] IN
         IF l = 0 THEN [err |-> "OK", used |-> my + 1, name |-> acc]
         ELSE IF l > 63 \/ my + 1 + l > length \/ offset + my + 1 + l > Len(buffer)
         THEN bad
         ELSE LET raw == Slice(buffer, offset + my + 1, offset + my + 1 + l) IN
              IF \E i \in DOMAIN raw : ~IsNameByte(raw[i]) THEN bad
              ELSE LET label == [i \in DOMAIN raw |-> Chr(raw[i])]
                       name == IF my = 0 THEN label ELSE acc \o <<".">> \o label
                   IN ParseLabels(buffer, offset, length, my + 1 + l, name)
parse_domain_name(buffer, offset, length) == ParseLabels(buffer, offset, length, 0, <<>>)

\* dhcp.ipv6.encode_domain_name(name): each label of the dotted string with
\* its length in front, then the root label.
RECURSIVE EncodeFrom(_, _, _)
EncodeFrom(name, i, label) ==
    LET flush == IF label = <<>> THEN <<>>
                 ELSE <<Len(label)>> \o [k \in DOMAIN label |-> Ord(label[k])] IN
    IF i > Len(name) THEN flush \o <<0>>
    ELSE IF name[i] = "." THEN flush \o EncodeFrom(name, i + 1, <<>>)
    ELSE EncodeFrom(name, i + 1, label \o <<name[i]>>)
encode_domain_name(name) == EncodeFrom(name, 1, <<>>)

\* ---------------------------------------------------------------- elements
\* ipaddress.IPv6Address(bytes) takes exactly 16 bytes; .packed gives them back.
IPv6Address(bytes) ==
    IF Len(bytes) = 16 THEN [err |-> "OK", address |-> [packed |-> bytes]]
    ELSE [err |-> "AddressValueError", address |-> [packed |-> <<>>]]

NoOption == [cls |-> "none"]
Failed(kind) == [err |-> kind, used |-> 0, option |-> NoOption]

\* The suboption_type class attribute of the registered classes.
suboption_type_of(cls) ==
    IF cls = ClsServerAddress.id THEN ClsServerAddress.suboption_type
    ELSE IF cls = ClsMulticastAddress.id THEN ClsMulticastAddress.suboption_type
    ELSE IF cls = ClsServerFQDN.id THEN ClsServerFQDN.suboption_type
    ELSE ClsNTPSubOption.suboption_type

\* NTPSubOption.determine_class: [err, cls]
determine_class(reg, buffer, offset) ==
    IF ~CanUnpack(buffer, offset, 2) THEN [err |-> "StructError", cls |-> "none"]
    ELSE LET suboption_type == unpack_H(buffer, offset) IN
         [err |-> "OK",
          cls |-> IF suboption_type \in DOMAIN reg THEN reg[suboption_type]
                  ELSE ClsUnknown.id]

\* NTPSubOption.parse_suboption_header: [err, my_offset, suboption_len]
parse_suboption_header(self_type, buffer, offset, length) ==
    IF ~CanUnpack(buffer, offset, 4)
    THEN [err |-> "StructError", my_offset |-> 0, suboption_len |-> 0]
    ELSE LET suboption_type == unpack_H(buffer, offset)
             suboption_len == unpack_H(buffer, offset + 2)
             my_offset == 4
         IN IF suboption_type # self_type
            THEN [err |-> "DecoderTypeMismatch", my_offset |-> 0, suboption_len |-> 0]
            ELSE IF length # None /\ suboption_len + my_offset > length
            THEN [err |-> "TruncatedBuffer", my_offset |-> 0, suboption_len |-> 0]
            ELSE [err |-> "OK", my_offset |-> my_offset, suboption_len |-> suboption_len]

\* UnknownNTPSubOption.load_from with my_offset not advanced past the header
UnknownLoadFromNoHeader(buffer, offset, length) ==
    IF ~CanUnpack(buffer, offset, 4) THEN Failed("StructError")
    ELSE LET suboption_type == unpack_H(buffer, offset)
             option_len == unpack_H(buffer, offset + 2)
             max_length == IF length = None \/ length = 0
                           THEN Len(buffer) - offset ELSE length
         IN IF 4 + option_len > max_length THEN Failed("TruncatedBuffer")
            ELSE [err |-> "OK", used |-> option_len,
                  option |-> [cls |-> ClsUnknown.id,
                              suboption_type |-> suboption_type,
                              suboption_data |-> Slice(buffer, offset + 4,
                                                       offset + 4 + option_len)]]

\* UnknownNTPSubOption.load_from
UnknownLoadFrom(buffer, offset, length) ==
    IF ~CanUnpack(buffer, offset, 4) THEN Failed("StructError")
    ELSE LET suboption_type == unpack_H(buffer, offset)
             option_len == unpack_H(buffer, offset + 2)
             my_offset == 4
             max_length == IF length = None \/ length = 0
                           THEN Len(buffer) - offset ELSE length
         IN IF my_offset + option_len > max_length THEN Failed("TruncatedBuffer")
            ELSE [err |-> "OK", used |-> my_offset + option_len,
                  option |-> [cls |-> ClsUnknown.id,
                              suboption_type |-> suboption_type,
                              suboption_data |-> Slice(buffer, offset + my_offset,
                                                       offset + my_offset + option_len)]]

\* UnknownNTPSubOption.save with the registry's default type code written
UnknownSaveDefaultType(option) ==
    pack_HH(ClsUnknown.suboption_type, Len(option.suboption_data)) \o option.suboption_data

\* UnknownNTPSubOption.save
UnknownSave(option) ==
    pack_HH(option.suboption_type, Len(option.suboption_data)) \o option.suboption_data

\* The address load_from with the length test only rejecting short payloads
AddressLoadFromAtLeast16(cls, buffer, offset, length) ==
    LET h == parse_suboption_header(suboption_type_of(cls), buffer, offset, length) IN
    IF h.err # "OK" THEN Failed(h.err)
    ELSE IF h.suboption_len < 16 THEN Failed("LengthMismatch")
    ELSE LET a == IPv6Address(Slice(buffer, offset + h.my_offset, offset + h.my_offset + 16)) IN
         IF a.err # "OK" THEN Failed(a.err)
         ELSE [err |-> "OK", used |-> h.my_offset + 16,
               option |-> [cls |-> cls, address |-> a.address]]

\* NTPServerAddressSubOption.load_from and NTPMulticastAddressSubOption.load_from
AddressLoadFrom(cls, buffer, offset, length) ==
    LET h == parse_suboption_header(suboption_type_of(cls), buffer, offset, length) IN
    IF h.err # "OK" THEN Failed(h.err)
    ELSE IF h.suboption_len # 16 THEN Failed("LengthMismatch")
    ELSE LET a == IPv6Address(Slice(buffer, offset + h.my_offset, offset + h.my_offset + 16)) IN
         IF a.err # "OK" THEN Failed(a.err)
         ELSE [err |-> "OK", used |-> h.my_offset + 16,
               option |-> [cls |-> cls, address |-> a.address]]

\* NTPServerAddressSubOption.save and NTPMulticastAddressSubOption.save
AddressSave(option) ==
    pack_HH(suboption_type_of(option.cls), 16) \o option.address.packed

\* NTPServerFQDNSubOption.load_from
FQDNLoadFrom(buffer, offset, length) ==
    LET h == parse_suboption_header(NTP_SUBOPTION_SRV_FQDN, buffer, offset, length) IN
    IF h.err # "OK" THEN Failed(h.err)
    ELSE LET header_offset == h.my_offset
             max_offset == h.suboption_len + header_offset
             d == parse_domain_name(buffer, offset + h.my_offset, h.suboption_len)
         IN IF d.err # "OK" THEN Failed(d.err)
            ELSE IF h.my_offset + d.used # max_offset THEN Failed("LengthMismatch")
            ELSE [err |-> "OK", used |-> h.my_offset + d.used,
                  option |-> [cls |-> ClsServerFQDN.id, fqdn |-> d.name]]

\* NTPServerFQDNSubOption.save
FQDNSave(option) ==
    LET fqdn_buffer == encode_domain_name(option.fqdn) IN
    pack_HH(NTP_SUBOPTION_SRV_FQDN, Len(fqdn_buffer)) \o fqdn_buffer

\* load_from of an instance of class cls
SubOptionLoadFrom(cls, buffer, offset, length) ==
    IF cls = ClsUnknown.id THEN UnknownLoadFrom(buffer, offset, length)
    ELSE IF cls = ClsServerFQDN.id THEN FQDNLoadFrom(buffer, offset, length)
    ELSE AddressLoadFrom(cls, buffer, offset, length)

\* option.save() of a held element
SubOptionSave(option) ==
    IF option.cls = ClsUnknown.id THEN UnknownSave(option)
    ELSE IF option.cls = ClsServerFQDN.id THEN FQDNSave(option)
    ELSE AddressSave(option)

\* StructuredElement.parse as NTPSubOption.parse: the class from the registry,
\* an instance of it, its load_from.
SubOptionParse(reg, buffer, offset, length) ==
    LET c == determine_class(reg, buffer, offset) IN
    IF c.err # "OK" THEN Failed(c.err)
    ELSE SubOptionLoadFrom(c.cls, buffer, offset, length)

\* --------------------------------------------------------------- container
\* NTPServerOption.add_may_contain(NTPSubOption, 1): the occurrence count the
\* container asks of the elements that are NTPSubOptions.
may_contain == [klass |-> ClsNTPSubOption.id, occurrence |-> 1]

\* isinstance(option, NTPSubOption): the four element classes derive from it.
IsNTPSubOption(option) ==
    option.cls \in {ClsUnknown.id, ClsServerAddress.id, ClsMulticastAddress.id,
                    ClsServerFQDN.id}

RECURSIVE CountSubOptions(_)
CountSubOptions(elements) ==
    IF elements = <<>> THEN 0
    ELSE (IF IsNTPSubOption(Head(elements)) THEN 1 ELSE 0) + CountSubOptions(Tail(elements))

\* StructuredElement.validate_contains: the count of the constrained class
\* must be the allowed occurrence count.
validate_contains(may, elements) ==
    IF CountSubOptions(elements) = may.occurrence THEN "OK" ELSE "CardinalityViolation"

\* validate with the lower bound of the count forgotten
validateAtMostOne(options) ==
    IF CountSubOptions(options) <= may_contain.occurrence THEN "OK" ELSE "CardinalityViolation"

\* NTPServerOption.validate
validate(options) == validate_contains(may_contain, options)

\* Option.parse_option_header: [err, my_offset, option_len]
parse_option_header(buffer, offset, length) ==
    IF ~CanUnpack(buffer, offset, 4)
    THEN [err |-> "StructError", my_offset |-> 0, option_len |-> 0]
    ELSE LET option_type == unpack_H(buffer, offset)
             option_len == unpack_H(buffer, offset + 2)
             my_offset == 4
         IN IF option_type # OPTION_NTP_SERVER
            THEN [err |-> "DecoderTypeMismatch", my_offset |-> 0, option_len |-> 0]
            ELSE IF length # None /\ option_len + my_offset > length
            THEN [err |-> "TruncatedBuffer", my_offset |-> 0, option_len |-> 0]
            ELSE [err |-> "OK", my_offset |-> my_offset, option_len |-> option_len]

\* The for loop of NTPServerOption.save: the elements' bytes in held order.
RECURSIVE options_buffer(_)
options_buffer(options) ==
    IF options = <<>> THEN <<>>
    ELSE SubOptionSave(Head(options)) \o options_buffer(Tail(options))

\* save with the length field taken from the header read by load_from
SaveLengthCached(options, last_option_len) == last_option_len

\* The length field NTPServerOption.save writes; last_option_len is the length
\* the latest load_from read from a header.
SaveLength(options, last_option_len) == Len(options_buffer(options))

\* NTPServerOption.save: [err, bytes]
ServerOptionSave(options, last_option_len) ==
    IF validate(options) # "OK" THEN [err |-> validate(options), bytes |-> <<>>]
    ELSE IF SaveLength(options, last_option_len) > 65535
    THEN [err |-> "StructError", bytes |-> <<>>]
    ELSE [err |-> "OK",
          bytes |-> pack_HH(OPTION_NTP_SERVER, SaveLength(options, last_option_len))
                    \o options_buffer(options)]

\* ----------------------------------------------------------- configuration
\* The characters re.split('[,\t ]+', value) splits at.
IsSeparator(c) == c \in {",", "\t", " "}

\* re.split('[,\t ]+', value): the tokens between runs of separators.
RECURSIVE SplitFrom(_, _, _, _)
SplitFrom(value, i, token, in_run) ==
    IF i > Len(value) THEN <<token>>
    ELSE IF IsSeparator(value[i])
    THEN IF in_run THEN SplitFrom(value, i + 1, token, TRUE)
         ELSE <<token>> \o SplitFrom(value, i + 1, <<>>, TRUE)
    ELSE SplitFrom(value, i + 1, token \o <<value[i]>>, FALSE)
Split(value) == SplitFrom(value, 1, <<>>, FALSE)

\* ipaddress.IPv6Address(str), for the literals "::d" with one digit d.
IPv6AddressFromString(config) ==
    IF Len(config) = 3 /\ config[1] = ":" /\ config[2] = ":" /\ IsDigit(config[3])
    THEN [err |-> "OK",
          address |-> [packed |-> [i \in 1..16 |-> IF i = 16 THEN Ord(config[3]) - 48 ELSE 0]]]
    ELSE [err |-> "AddressValueError", address |-> [packed |-> <<>>]]

\* cls.from_string(config): [err, option]
from_string(cls, config) ==
    IF cls \in {ClsServerAddress.id, ClsMulticastAddress.id}
    THEN LET a == IPv6AddressFromString(config) IN
         IF a.err # "OK" THEN [err |-> a.err, option |-> NoOption]
         ELSE [err |-> "OK", option |-> [cls |-> cls, address |-> a.address]]
    ELSE IF cls = ClsServerFQDN.id
    THEN [err |-> "OK", option |-> [cls |-> cls, fqdn |-> config]]
    ELSE [err |-> "ConfigError", option |-> NoOption]

\* The name an entry of the section is looked up under.
SuboptionName(name) ==
    IF "-" \in Range(name) \/ "_" \in Range(name)
    THEN Lower(ReplaceDash(name))
    ELSE camelcase_to_underscore(name)

\* The inner loop of from_config_section over the tokens of one value.
RECURSIVE TokensToOptions(_, _, _)
TokensToOptions(cls, tokens, options) ==
    IF tokens = <<>> THEN [err |-> "OK", options |-> options]
    ELSE IF Head(tokens) = <<>> THEN [err |-> "EmptyValue", options |-> options]
    ELSE LET o == from_string(cls, Head(tokens)) IN
         IF o.err # "OK" THEN [err |-> o.err, options |-> options]
         ELSE TokensToOptions(cls, Tail(tokens), Append(options, o.option))

\* The outer loop of from_config_section over the entries of the section.
RECURSIVE EntriesToOptions(_, _, _)
EntriesToOptions(nreg, section, options) ==
    IF section = <<>> THEN [err |-> "OK", options |-> options]
    ELSE LET suboption_name == SuboptionName(Head(section).name) IN
         IF suboption_name \notin DOMAIN nreg
         THEN [err |-> "UnknownElementName", options |-> options]
         ELSE LET t == TokensToOptions(nreg[suboption_name], Split(Head(section).value),
                                       options) IN
              IF t.err # "OK" THEN t
              ELSE EntriesToOptions(nreg, Tail(section), t.options)

\* NTPServerOption.from_config_section: [err, options]; cls(options=options)
\* validates in __init__, then validate() is called once more.
from_config_section(nreg, section) ==
    LET e == EntriesToOptions(nreg, section, <<>>) IN
    IF e.err # "OK" THEN e
    ELSE [err |-> validate(e.options), options |-> e.options]

\* ------------------------------------------------------------------ inputs
\* ::1, the address the literal "::1" of ConfigValues stands for
Address1 == [i \in 1..16 |-> IF i = 16 THEN 1 ELSE 0]
NameAB == <<"a", ".", "b">>
NameNtpExampleCom ==
    <<"n","t","p",".","e","x","a","m","p","l","e",".","c","o","m">>

OptServerAddress == [cls |-> ClsServerAddress.id, address |-> [packed |-> Address1]]
OptMulticastAddress == [cls |-> ClsMulticastAddress.id, address |-> [packed |-> Address1]]
OptFQDN == [cls |-> ClsServerFQDN.id, fqdn |-> NameNtpExampleCom]
OptUnknown == [cls |-> ClsUnknown.id, suboption_type |-> 9, suboption_data |-> <<7, 8>>]
OptUnknownEmpty == [cls |-> ClsUnknown.id, suboption_type |-> 0, suboption_data |-> <<>>]

\* The elements a caller builds containers from.
HeldOptions == {OptServerAddress, OptMulticastAddress, OptFQDN, OptUnknown}

RECURSIVE SeqsUpTo(_, _)
SeqsUpTo(S, n) ==
    IF n = 0 THEN {<<>>}
    ELSE LET shorter == SeqsUpTo(S, n - 1) IN
         shorter \cup {Append(q, x) : q \in shorter, x \in S}

\* The options argument of NTPServerOption(options=...); None is <<>>.
CtorArgs == SeqsUpTo(HeldOptions, MaxHeld)

\* Encoded nested elements: the well-formed ones, an address element with a
\* short declared length and an unknown element that claims 8 bytes of data.
WellFormedNested == {SubOptionSave(o) : o \in HeldOptions \cup {OptUnknownEmpty}}
MalformedNested == {<<0, 1, 0, 4, 1, 2, 3, 4>>, <<0, 9, 0, 8, 1, 2>>}
\* The nested elements container payloads are built from.
NestedSet ==
    {SubOptionSave(o) : o \in {OptServerAddress, OptFQDN, OptUnknown}} \cup MalformedNested

RECURSIVE Flatten(_)
Flatten(parts) == IF parts = <<>> THEN <<>> ELSE Head(parts) \o Flatten(Tail(parts))

Payloads == {Flatten(parts) : parts \in SeqsUpTo(NestedSet, MaxNested)}
Junk(n) == [i \in 1..n |-> 170]
\* The offset arguments: the option at the start of the buffer or after junk.
Offsets == {0, 1}

\* Container buffers: the header with a declared length that is the payload's
\* size, 0, 8 or 4 too many, then the payload; a header declaring 65535 bytes,
\* a header of another option type and a cut-off header.
ContainerBytes ==
    UNION {{pack_HH(OPTION_NTP_SERVER, declared) \o payload :
               declared \in {Len(payload), 0, 8, Len(payload) + 4}} :
           payload \in Payloads}
    \cup {pack_HH(OPTION_NTP_SERVER, 65535) \o SubOptionSave(OptUnknown),
          pack_HH(57, 0), <<0, 56, 0>>}

\* The arguments of load_from: the option at the start of the buffer with no
\* limit, or behind a byte of junk with the size of the option as the limit.
LoadArgs ==
    {[buffer |-> bytes, offset |-> 0, length |-> None] : bytes \in ContainerBytes}
    \cup {[buffer |-> Junk(1) \o bytes, offset |-> 1, length |-> Len(bytes)] :
            bytes \in ContainerBytes}

\* Declared lengths of the address elements handed to a leaf load_from.
DeclaredLens == {0, 15, 16, 17, 20, 65535}
\* Type codes of the elements handed to a leaf parse.
TypeCodes == {0, 1, 2, 3, 4, 9, 65535}

LeafBytes ==
    WellFormedNested \cup MalformedNested
    \cup {pack_HH(t, declared) \o Address1 : t \in TypeCodes, declared \in DeclaredLens}
    \cup {pack_HH(t, 2) \o <<5, 6>> \o Junk(1) : t \in TypeCodes}
    \cup {<<0, 3>>, <<0>>, <<0, 3, 0, 5, 1, 97, 1, 98, 0, 0>>, <<0, 3, 0, 2, 1, 97, 0>>,
          <<0, 9, 0, 5, 1, 2>>}

LeafArgs ==
    {[buffer |-> Junk(off) \o bytes, offset |-> off, length |-> len] :
        off \in Offsets, bytes \in LeafBytes, len \in {None, 0, 10}}
    \cup {[buffer |-> Junk(off) \o bytes, offset |-> off, length |-> Len(bytes)] :
        off \in Offsets, bytes \in LeafBytes}

LeafClasses == {ClsUnknown.id, ClsServerAddress.id, ClsMulticastAddress.id, ClsServerFQDN.id}

\* Configuration sections: at most one entry, a name and a value.
ConfigNames ==
    {<<"s","r","v","_","f","q","d","n">>,
     <<"s","e","r","v","e","r","_","f","q","d","n">>,
     <<"S","e","r","v","e","r","-","F","Q","D","N">>,
     <<"S","e","r","v","e","r","F","q","d","n">>,
     <<"s","e","r","v","e","r","_","a","d","d","r","e","s","s">>,
     <<"m","u","l","t","i","c","a","s","t","A","d","d","r","e","s","s">>}
ConfigValues ==
    {NameNtpExampleCom, NameAB \o <<",", " ">> \o NameAB, NameAB \o <<",">>, <<>>,
     <<":", ":", "1">>, <<" ">> \o NameAB}
Sections ==
    {<<>>} \cup {<<[name |-> n, value |-> v]>> : n \in ConfigNames, v \in ConfigValues}

\* ------------------------------------------------------------------- state
\* registry, name_registry: the module's two dicts.
\* op, pc, err: the call in progress or last made, where it stands ("idle",
\*   "loop" inside load_from's while loop, "done" returned, "error" raised) and
\*   the error it raised.
\* obj, options: whether a container object exists, and its options list.
\* buffer, offset, length: the arguments of the latest load_from or parse.
\* my_offset, max_offset, option_len, iterations: the locals of
\*   NTPServerOption.load_from and the number of NTPSubOption.parse calls made.
\* ret, saved: the int a load_from returned, the bytes a save returned.
\* leaf_cls, leaf: the element class a leaf load_from ran on and the element.
\* section: the argument of the latest from_config_section.
VARIABLES registry, name_registry, op, pc, err, obj, options, buffer, offset, length,
          my_offset, max_offset, option_len, iterations, ret, saved, leaf_cls, leaf,
          section

regs == <<registry, name_registry>>
call == <<buffer, offset, length>>
locals == <<my_offset, max_offset, option_len, iterations>>
leafs == <<leaf_cls, leaf>>
vars == <<registry, name_registry, op, pc, err, obj, options, buffer, offset, length,
          my_offset, max_offset, option_len, iterations, ret, saved, leaf_cls, leaf,
          section>>

AtRest == pc \in {"idle", "done", "error"}

Init ==
    /\ registry = ModuleInit.registry
    /\ name_registry = ModuleInit.name_registry
    /\ op = "none"
    /\ pc = "idle"
    /\ err = "OK"
    /\ obj = FALSE
    /\ options = <<>>
    /\ buffer = <<>>
    /\ offset = 0
    /\ length = None
    /\ my_offset = 0
    /\ max_offset = 0
    /\ option_len = 0
    /\ iterations = 0
    /\ ret = None
    /\ saved = <<>>
    /\ leaf_cls = "none"
    /\ leaf = NoOption
    /\ section = <<>>

\* register(subclass)
Register(subclass) ==
    LET r == register(registry, name_registry, subclass) IN
    /\ AtRest
    /\ registry' = r.registry
    /\ name_registry' = r.name_registry
    /\ op' = "register"
    /\ pc' = IF r.err = "OK" THEN "done" ELSE "error"
    /\ err' = r.err
    /\ UNCHANGED <<obj, options, call, locals, ret, saved, leafs, section>>

\* NTPServerOption(options=args): __init__ stores the list and validates.
\* A behaviour follows one container from its construction on.
Construct(args) ==
    /\ pc = "idle"
    /\ ~obj
    /\ op' = "init"
    /\ options' = args
    /\ err' = validate(args)
    /\ pc' = IF validate(args) = "OK" THEN "done" ELSE "error"
    /\ obj' = (validate(args) = "OK")
    /\ UNCHANGED <<regs, call, locals, ret, saved, leafs, section>>

\* option.validate() on the container
Validate ==
    /\ pc = "idle"
    /\ obj
    /\ op' = "validate"
    /\ err' = validate(options)
    /\ pc' = IF validate(options) = "OK" THEN "done" ELSE "error"
    /\ UNCHANGED <<regs, obj, options, call, locals, ret, saved, leafs, section>>

\* The first lines of load_from with the length limit not handed on
EnterLoadNoLimit(a) ==
    LET h == parse_option_header(a.buffer, a.offset, None) IN
    /\ buffer' = a.buffer
    /\ offset' = a.offset
    /\ length' = a.length
    /\ iterations' = 0
    /\ ret' = None
    /\ err' = h.err
    /\ pc' = IF h.err = "OK" THEN "loop" ELSE "error"
    /\ my_offset' = h.my_offset
    /\ option_len' = h.option_len
    /\ max_offset' = IF h.err = "OK" THEN h.option_len + h.my_offset ELSE 0

\* The first lines of NTPServerOption.load_from, up to the while loop.
EnterLoad(a) ==
    LET h == parse_option_header(a.buffer, a.offset, a.length) IN
    /\ buffer' = a.buffer
    /\ offset' = a.offset
    /\ length' = a.length
    /\ iterations' = 0
    /\ ret' = None
    /\ err' = h.err
    /\ pc' = IF h.err = "OK" THEN "loop" ELSE "error"
    /\ my_offset' = h.my_offset
    /\ option_len' = h.option_len
    /\ max_offset' = IF h.err = "OK" THEN h.option_len + h.my_offset ELSE 0

\* option.load_from(buffer, offset, length) on an existing container
LoadFrom(a) ==
    /\ pc = "idle"
    /\ obj
    /\ Len(options) < MaxHeld
    /\ op' = "load_from"
    /\ EnterLoad(a)
    /\ UNCHANGED <<regs, obj, options, saved, leafs, section>>

\* Decoding a buffer: NTPServerOption() and then load_from on the new object.
Decode(a) ==
    /\ pc = "idle"
    /\ ~obj
    /\ op' = "decode"
    /\ options' = <<>>
    /\ obj' = (validate(<<>>) = "OK")
    /\ IF validate(<<>>) = "OK"
       THEN EnterLoad(a)
       ELSE /\ err' = validate(<<>>)
            /\ pc' = "error"
            /\ buffer' = a.buffer
            /\ offset' = a.offset
            /\ length' = a.length
            /\ ret' = None
            /\ UNCHANGED locals
    /\ UNCHANGED <<regs, saved, leafs, section>>

\* One pass of the while loop: parse the next suboption, append it, advance.
LoopParse ==
    /\ pc = "loop"
    /\ max_offset > my_offset
    /\ LET r == SubOptionParse(registry, buffer, offset + my_offset, None) IN
       /\ iterations' = iterations + 1
       /\ IF r.err = "OK"
          THEN /\ options' = Append(options, r.option)
               /\ my_offset' = my_offset + r.used
               /\ UNCHANGED <<pc, err>>
          ELSE /\ pc' = "error"
               /\ err' = r.err
               /\ UNCHANGED <<options, my_offset>>
    /\ UNCHANGED <<regs, op, obj, call, max_offset, option_len, ret, saved, leafs, section>>

\* The end of load_from with the length check left out
LoopExitNoLengthCheck ==
    /\ pc = "loop"
    /\ ~(max_offset > my_offset)
    /\ IF validate(options) # "OK"
       THEN /\ pc' = "error"
            /\ err' = validate(options)
            /\ ret' = None
       ELSE /\ pc' = "done"
            /\ err' = "OK"
            /\ ret' = my_offset
    /\ UNCHANGED <<regs, op, obj, options, call, locals, saved, leafs, section>>

\* After the loop: the length check, validate, return.
LoopExit ==
    /\ pc = "loop"
    /\ ~(max_offset > my_offset)
    /\ IF my_offset # max_offset
       THEN /\ pc' = "error"
            /\ err' = "LengthMismatch"
            /\ ret' = None
       ELSE IF validate(options) # "OK"
       THEN /\ pc' = "error"
            /\ err' = validate(options)
            /\ ret' = None
       ELSE /\ pc' = "done"
            /\ err' = "OK"
            /\ ret' = my_offset
    /\ UNCHANGED <<regs, op, obj, options, call, locals, saved, leafs, section>>

\* option.save() on the container, as a call of its own or right after a
\* load_from that returned
Save ==
    LET r == ServerOptionSave(options, option_len) IN
    /\ pc = "idle" \/ (op = "load_from" /\ pc = "done")
    /\ obj
    /\ op' = "save"
    /\ err' = r.err
    /\ pc' = IF r.err = "OK" THEN "done" ELSE "error"
    /\ saved' = r.bytes
    /\ UNCHANGED <<regs, obj, options, call, locals, ret, leafs, section>>

\* NTPServerOption.from_config_section(section)
FromConfigSection(sec) ==
    LET r == from_config_section(name_registry, sec) IN
    /\ pc = "idle"
    /\ ~obj
    /\ op' = "from_config_section"
    /\ section' = sec
    /\ err' = r.err
    /\ pc' = IF r.err = "OK" THEN "done" ELSE "error"
    /\ obj' = (r.err = "OK")
    /\ options' = r.options
    /\ UNCHANGED <<regs, call, locals, ret, saved, leafs>>

\* The call is over: its frame (arguments, locals, results) is gone; the
\* container stays if there is one.
Return ==
    /\ pc \in {"done", "error"}
    /\ pc' = "idle"
    /\ op' = "none"
    /\ err' = "OK"
    /\ options' = IF obj THEN options ELSE <<>>
    /\ buffer' = <<>>
    /\ offset' = 0
    /\ length' = None
    /\ my_offset' = 0
    /\ max_offset' = 0
    /\ option_len' = 0
    /\ iterations' = 0
    /\ ret' = None
    /\ saved' = <<>>
    /\ leaf_cls' = "none"
    /\ leaf' = NoOption
    /\ section' = <<>>
    /\ UNCHANGED <<regs, obj>>

\* cls().load_from(buffer, offset, length) on a suboption class
LeafLoadFrom(cls, a) ==
    LET r == SubOptionLoadFrom(cls, a.buffer, a.offset, a.length) IN
    /\ pc = "idle"
    /\ op' = "leaf_load_from"
    /\ leaf_cls' = cls
    /\ buffer' = a.buffer
    /\ offset' = a.offset
    /\ length' = a.length
    /\ err' = r.err
    /\ pc' = IF r.err = "OK" THEN "done" ELSE "error"
    /\ ret' = IF r.err = "OK" THEN r.used ELSE None
    /\ leaf' = r.option
    /\ saved' = <<>>
    /\ UNCHANGED <<regs, obj, options, locals, section>>

\* NTPSubOption.parse(buffer, offset, length)
LeafParse(a) ==
    LET c == determine_class(registry, a.buffer, a.offset)
        r == SubOptionParse(registry, a.buffer, a.offset, a.length) IN
    /\ pc = "idle"
    /\ op' = "leaf_parse"
    /\ leaf_cls' = c.cls
    /\ buffer' = a.buffer
    /\ offset' = a.offset
    /\ length' = a.length
    /\ err' = r.err
    /\ pc' = IF r.err = "OK" THEN "done" ELSE "error"
    /\ ret' = IF r.err = "OK" THEN r.used ELSE None
    /\ leaf' = r.option
    /\ saved' = <<>>
    /\ UNCHANGED <<regs, obj, options, locals, section>>

\* element.save() on the element the latest leaf call produced
LeafSave ==
    /\ op \in {"leaf_load_from", "leaf_parse"}
    /\ pc = "done"
    /\ op' = "leaf_save"
    /\ saved' = SubOptionSave(leaf)
    /\ UNCHANGED <<regs, pc, err, obj, options, call, locals, ret, leafs, section>>

\* The container: construction, decoding, validation, encoding.
Next ==
    \/ \E args \in CtorArgs : Construct(args)
    \/ Validate
    \/ \E a \in LoadArgs : LoadFrom(a)
    \/ \E a \in LoadArgs : Decode(a)
    \/ LoopParse
    \/ LoopExit
    \/ Save
    \/ \E sec \in Sections : FromConfigSection(sec)
    \/ Return

Spec == Init /\ [][Next]_vars

\* The suboptions on their own: load_from, parse and save of one element.
LeafNext ==
    \/ \E cls \in LeafClasses, a \in LeafArgs : LeafLoadFrom(cls, a)
    \/ \E a \in LeafArgs : LeafParse(a)
    \/ LeafSave
    \/ Return

SpecLeaf == Init /\ [][LeafNext]_vars

\* Calls of register() after the module is loaded.
RegNext == \E subclass \in RegisterArgs : Register(subclass)

SpecReg == Init /\ [][RegNext]_vars

\* ------------------------------------------------------------- properties
\* The bytes of the option handed to the latest load_from or parse.
Remaining == Len(buffer) - offset
\* The number of held elements that are NTPSubOptions, by position.
HeldSubOptions == Cardinality({i \in DOMAIN options : options[i].cls \in LeafClasses})
\* The sum of the serialized lengths of the first n held elements.
RECURSIVE SavedLenUpTo(_)
SavedLenUpTo(n) == IF n = 0 THEN 0 ELSE SavedLenUpTo(n - 1) + Len(SubOptionSave(options[n]))

WellFormedContainer ==
    \E n \in WellFormedNested :
        Slice(buffer, offset, Len(buffer)) = pack_HH(OPTION_NTP_SERVER, Len(n)) \o n

\* C2: decoding a well-formed container buffer (NTPServerOption(), then
\* load_from) succeeds, leaves exactly the one decoded element in the
\* container, and save() gives the bytes of the buffer back.
C2_DecodeRoundTrip ==
    (op = "decode" /\ pc \in {"done", "error"} /\ WellFormedContainer)
        => /\ pc = "done"
           /\ Len(options) = 1
           /\ ServerOptionSave(options, option_len).bytes = Slice(buffer, offset, Len(buffer))

\* C9: save() of a container that passes validation returns the 4 header
\* bytes (type 56, then the length) and the held elements' save() outputs in
\* held order; the length field is the sum of the elements' serialized
\* lengths as they are now, whatever length load_from read before.
C9_SaveLengthRecomputed ==
    (op = "save" /\ pc = "done")
        => /\ Len(saved) = 4 + SavedLenUpTo(Len(options))
           /\ unpack_H(saved, 0) = OPTION_NTP_SERVER
           /\ unpack_H(saved, 2) = SavedLenUpTo(Len(options))
           /\ \A i \in DOMAIN options :
                Slice(saved, 4 + SavedLenUpTo(i - 1), 4 + SavedLenUpTo(i))
                    = SubOptionSave(options[i])

\* C9 witness: save() after a load_from that returned, where the length
\* load_from read differs from the length save() wrote.
C9_Witness ==
    /\ op = "save"
    /\ pc = "done"
    /\ ret = 4
    /\ unpack_H(saved, 2) # option_len

\* C10: the while loop of load_from makes progress: after k parse calls the
\* consumed offset is at least 4 + 4k while the loop is running, so k is at
\* most the declared length divided by 4, rounded up.
C10_LoopBounded ==
    (op \in {"load_from", "decode"})
        => /\ iterations * 4 <= option_len + 3
           /\ (pc = "loop") => (my_offset >= 4 + 4 * iterations)

\* C10 witness: the loop ran twice and reached the end of the declared payload.
C10_Witness ==
    /\ op = "load_from"
    /\ pc = "loop"
    /\ iterations = 2
    /\ my_offset = max_offset

\* The header at the offset of the latest call: its type code and its
\* declared length, when the four bytes are there.
HeaderReadable == CanUnpack(buffer, offset, 4)
HeaderType == unpack_H(buffer, offset)
Declared == unpack_H(buffer, offset + 2)

\* The element fits the bytes the call may read: the buffer, and the length
\* limit when one was given (a limit of 0 counts as none in the unknown
\* element's load_from).
ElementFits ==
    /\ 4 + Declared <= Remaining
    /\ length \in {None, 0} \/ 4 + Declared <= length

\* C3: an element whose type code is not in the registry resolves to
\* UnknownNTPSubOption; its load_from succeeds whenever the payload fits,
\* keeps the type code and the payload, consumes 4 + declared length bytes,
\* and save() gives the bytes of the element back.
C3_UnknownPreserved ==
    (/\ HeaderReadable
     /\ HeaderType \notin DOMAIN registry
     /\ ElementFits
     /\ \/ op = "leaf_parse"
        \/ op \in {"leaf_load_from", "leaf_save"} /\ leaf_cls = ClsUnknown.id)
        => /\ leaf_cls = ClsUnknown.id
           /\ pc = "done"
           /\ err = "OK"
           /\ leaf.cls = ClsUnknown.id
           /\ leaf.suboption_type = HeaderType
           /\ leaf.suboption_data = Slice(buffer, offset + 4, offset + 4 + Declared)
           /\ ret = 4 + Declared
           /\ (op = "leaf_save") => (saved = Slice(buffer, offset, offset + 4 + Declared))

\* C3 witness: an element of type 65535 behind one byte of junk was parsed
\* and saved again.
C3_Witness ==
    /\ op = "leaf_save"
    /\ leaf_cls = ClsUnknown.id
    /\ offset = 1
    /\ HeaderType = 65535
    /\ Declared = 2
    /\ saved = <<255, 255, 0, 2, 5, 6>>

\* The latest call is load_from of an address class on a header of its own
\* type code with a declared length other than 16.
AddressWrongLength ==
    /\ op = "leaf_load_from"
    /\ leaf_cls \in {ClsServerAddress.id, ClsMulticastAddress.id}
    /\ HeaderReadable
    /\ HeaderType = suboption_type_of(leaf_cls)
    /\ Declared # 16

\* C4 as stated: such a call always fails with LengthMismatch, with or
\* without a length limit.
C4_AlwaysLengthMismatch ==
    AddressWrongLength => (pc = "error" /\ err = "LengthMismatch" /\ ret = None)

\* C4 amended: such a call always fails and returns nothing; the failure is
\* TruncatedBuffer when a length limit is given and declared length + 4
\* exceeds it, LengthMismatch otherwise.
C4_WrongLengthFails ==
    AddressWrongLength
        => /\ pc = "error"
           /\ ret = None
           /\ err = IF length # None /\ Declared + 4 > length
                    THEN "TruncatedBuffer" ELSE "LengthMismatch"

\* C4 witness: a multicast address header declaring 65535 bytes, no limit.
C4_Witness ==
    /\ AddressWrongLength
    /\ leaf_cls = ClsMulticastAddress.id
    /\ Declared = 65535
    /\ length = None
    /\ err = "LengthMismatch"

\* The latest call is load_from of the container on a type-56 header.
ContainerLoad == op = "load_from" /\ HeaderReadable /\ HeaderType = OPTION_NTP_SERVER

\* C5 as stated: when the declared payload length exceeds the bytes that
\* remain in the buffer, load_from fails with TruncatedBuffer before any
\* nested suboption is parsed.
C5_TruncatedBeforeParse ==
    (ContainerLoad /\ Declared > Remaining - 4)
        => (pc = "error" /\ err = "TruncatedBuffer" /\ iterations = 0)

\* C5 amended: when a length limit is given and the declared payload length
\* + 4 exceeds it, load_from fails with TruncatedBuffer before any nested
\* suboption is parsed.
C5_TruncatedByLimit ==
    (ContainerLoad /\ length # None /\ Declared + 4 > length)
        => (pc = "error" /\ err = "TruncatedBuffer" /\ iterations = 0)

\* C5 witness: the limit is the bytes that remain and the declared payload
\* does not fit them.
C5_Witness ==
    /\ ContainerLoad
    /\ length = Remaining
    /\ Declared > Remaining - 4
    /\ Remaining > 4
    /\ err = "TruncatedBuffer"

\* The next nested element's header is in the buffer with all the bytes it
\* claims, and it claims more than remain of the declared payload.
NestedOverclaims ==
    /\ op = "load_from"
    /\ pc = "loop"
    /\ max_offset > my_offset
    /\ CanUnpack(buffer, offset + my_offset, 4)
    /\ 4 + unpack_H(buffer, offset + my_offset + 2) > max_offset - my_offset
    /\ CanUnpack(buffer, offset + my_offset, 4 + unpack_H(buffer, offset + my_offset + 2))

\* C6, the states: once the consumed bytes have passed the declared payload
\* length, load_from has failed with LengthMismatch; when load_from has
\* returned, it returned 4 + the declared payload length.
C6_States ==
    /\ (op = "load_from" /\ pc # "loop" /\ my_offset > max_offset)
            => (pc = "error" /\ err = "LengthMismatch" /\ ret = None)
    /\ (op = "load_from" /\ pc = "done")
            => (ret = 4 + Declared /\ my_offset = max_offset)

\* C6, the steps: a nested element that claims more than remains of the
\* declared payload either fails with LengthMismatch itself or carries the
\* offset past the declared end.
C6_Steps ==
    NestedOverclaims
        => \/ pc' = "error" /\ err' = "LengthMismatch"
           \/ pc' = "loop" /\ my_offset' > max_offset'

\* C6: the bytes the loop consumes must equal the declared payload length.
C6_LengthAccounting == [](C6_States) /\ [][C6_Steps]_vars

\* C6 witness: an address element of 20 bytes inside a declared payload of 8
\* was parsed, and load_from failed with LengthMismatch after the loop.
C6_Witness ==
    /\ op = "load_from"
    /\ pc = "error"
    /\ err = "LengthMismatch"
    /\ Declared = 8
    /\ iterations = 1
    /\ my_offset = 24

\* The section with the one entry srv_fqdn = ntp.example.com.
SrvFqdnSection ==
    <<[name |-> <<"s","r","v","_","f","q","d","n">>, value |-> NameNtpExampleCom]>>

\* C7: from_config_section on that section finds NTPServerFQDNSubOption under
\* the entry's name and returns a container of one FQDN element with the
\* fqdn ntp.example.com.
C7_SrvFqdnResolves ==
    (op = "from_config_section" /\ section = SrvFqdnSection)
        => /\ pc = "done"
           /\ err # "UnknownElementName"
           /\ options = <<[cls |-> ClsServerFQDN.id, fqdn |-> NameNtpExampleCom]>>

\* C8: no register() call changes or removes a mapping either registry holds.
C8_Step ==
    /\ \A k \in DOMAIN registry : k \in DOMAIN registry' /\ registry'[k] = registry[k]
    /\ \A n \in DOMAIN name_registry :
            n \in DOMAIN name_registry' /\ name_registry'[n] = name_registry[n]
C8_AppendOnly == [][C8_Step]_vars
=============================================================================
